---- MODULE Spec2Model ----
(***************************************************************************)
(* Planner Layer v2 of rfsn_controller: the scheduler loop of PlannerV2    *)
(* (next_step, update_state, revise_plan) over a Plan and a PlanState,    *)
(* with the StepLifecycle transitions it calls.                            *)
(***************************************************************************)
EXTENDS Integers, Sequences, FiniteSets, TLC

\* ------------------------------------------------------------------ bounds
\* Number of steps of the plan under execution.
NumSteps == 3

\* ------------------------------------------------------- program constants
\* planner.py:466  "state.consecutive_failures >= 2"
CONSECUTIVE_FAILURE_LIMIT == 2
\* StepLifecycle retry ceiling: fail() returns failure_count < MAX_RETRIES
MAX_RETRIES == 2
\* Plan.version of a freshly built plan
INITIAL_VERSION == 1

Steps == 1..NumSteps
\* A step id that names no step of the plan (plan.get_step returns None).
UnknownId == NumSteps + 1
StepIds == Steps \cup {UnknownId}

StepStatus == {"PENDING", "ACTIVE", "DONE", "FAILED", "SKIPPED"}
RiskLevel == {"LOW", "MED", "HIGH"}

VARIABLES
    deps,                  \* Step.dependencies, per step (fixed for the run)
    risk,                  \* Step.risk_level, per step (fixed for the run)
    status,                \* Step.status, per step
    failure_count,         \* Step.failure_count, per step
    version,               \* Plan.version
    current_step_idx,      \* PlanState.current_step_idx (0-based list index)
    completed_steps,       \* PlanState.completed_steps
    failed_steps,          \* PlanState.failed_steps
    consecutive_failures,  \* PlanState.consecutive_failures
    revision_count,        \* PlanState.revision_count
    halted,                \* PlanState.halted
    halt_reason,           \* PlanState.halt_reason: <<>> or <<step_id, failure_count>>
    returned,              \* what the latest next_step returned ({} is None), until
                           \* the caller hands an outcome to update_state
    activations,           \* per step: number of PENDING -> ACTIVE transitions
    resets                 \* per step: number of FAILED -> PENDING transitions

\* PlanArtifactLog (artifact_log.py) and its clock
VARIABLES
    now,                   \* the wall clock, in ticks of half a second
    active,                \* PlanArtifactLog._active_artifacts: id -> open record
    files,                 \* output_dir: artifact id -> contents of <id>.json
    calls_made             \* number of log calls so far that changed the log

\* The pure functions (the artifact conversions, the decomposition check)
VARIABLES
    arg,                   \* the value a pure function is applied to
    result                 \* {} before the call, then {what the call returned}

planVars == <<deps, risk, status, failure_count, version>>
stateVars == <<current_step_idx, completed_steps, failed_steps,
               consecutive_failures, revision_count, halted, halt_reason>>
plannerVars == <<deps, risk, status, failure_count, version, current_step_idx,
                 completed_steps, failed_steps, consecutive_failures,
                 revision_count, halted, halt_reason, returned, activations,
                 resets>>
logVars == <<now, active, files, calls_made>>
pureVars == <<arg, result>>
vars == <<logVars, plannerVars, pureVars>>

\* An empty dict / an empty directory: the map with no keys.
EmptyMap == [k \in {} |-> {}]

\* ------------------------------------------------------------ plan shapes
\* The dependency graphs of the plans a run is started with: every
\* dependency resolves to a step of the plan and the list is in dependency
\* order (a step depends only on steps listed before it), so the graph is
\* acyclic. These are the plans propose_plan builds and the decomposition
\* prompt asks for ("Steps should be ordered by dependencies").
ValidDeps ==
    {d \in [Steps -> SUBSET Steps] :
        \A s \in Steps : \A p \in d[s] : p < s}

\* The risk levels drawn for the steps of a plan. The scheduler reads a
\* risk level only through can_skip, which separates HIGH from the rest.
PlanRisks == {"MED", "HIGH"}

\* --------------------------------------------------------- StepLifecycle
\* can_activate(step, plan): PENDING and every dependency DONE.
can_activate(i) ==
    /\ status[i] = "PENDING"
    /\ \A d \in deps[i] : status[d] = "DONE"

\* complete(step, payload) requires ACTIVE; anything else raises.
complete_ok(i) == status[i] = "ACTIVE"

\* fail(step, msg) requires ACTIVE; anything else raises.
fail_ok(i) == status[i] = "ACTIVE"

\* fail's return value: retries remain after the increment.
fail_can_retry(i) == failure_count[i] + 1 < MAX_RETRIES

\* reset_for_retry(step) requires FAILED and retries remaining.
reset_for_retry_ok(i) ==
    /\ status[i] = "FAILED"
    /\ failure_count[i] < MAX_RETRIES

\* can_skip(step): high-risk steps are never skipped.
can_skip(i) == risk[i] # "HIGH"

\* skip(step, reason) requires FAILED; anything else raises.
skip_ok(i) == status[i] = "FAILED"

\* ------------------------------------------------------------------ Init
\* Everything but the argument of a pure function.
InitBase ==
    /\ deps \in ValidDeps
    /\ risk \in [Steps -> PlanRisks]
    /\ status = [s \in Steps |-> "PENDING"]
    /\ failure_count = [s \in Steps |-> 0]
    /\ version = INITIAL_VERSION
    /\ current_step_idx = 0
    /\ completed_steps = <<>>
    /\ failed_steps = <<>>
    /\ consecutive_failures = 0
    /\ revision_count = 0
    /\ halted = FALSE
    /\ halt_reason = <<>>
    /\ returned = {}
    /\ activations = [s \in Steps |-> 0]
    /\ resets = [s \in Steps |-> 0]
    /\ now = 0
    /\ active = EmptyMap
    /\ files = EmptyMap
    /\ calls_made = 0

Init ==
    /\ InitBase
    /\ arg = <<>>
    /\ result = {}

\* ------------------------------------------------------------- next_step
\* planner.py:416  the halt gate of next_step
\* (faulty variant: the halt check left out)
HaltGateOff == FALSE
HaltGate == halted

\* planner.py:421-423  a PENDING step that can_activate accepts
\* (faulty variant: can_activate not consulted)
DispatchableNoDeps(i) == status[i] = "PENDING"
Dispatchable(i) == status[i] = "PENDING" /\ can_activate(i)

\* planner.py:420-429  the steps at which the scan of plan.steps stops:
\* an activatable PENDING step, or a step that is already ACTIVE.
ScanHits == {i \in Steps : Dispatchable(i) \/ status[i] = "ACTIVE"}

\* The steps that are in flight.
ActiveSteps == {s \in Steps : status[s] = "ACTIVE"}

\* planner.py:420  the scan order of plan.steps
\* (faulty variant: the scan runs from the end of the list)
Max(S) == CHOOSE x \in S : \A y \in S : x >= y
\* planner.py:420  the scan runs in list order: the first hit is the lowest
Min(S) == CHOOSE x \in S : \A y \in S : x <= y

\* planner.py:416-431  what next_step returns in the current state: {} for
\* None, else the first step at which the scan stops.
next_step_returns ==
    IF HaltGate \/ ScanHits = {} THEN {} ELSE {Min(ScanHits)}

\* planner.py:400-431  next_step(plan, state)
NextStep ==
    /\ UNCHANGED <<logVars, pureVars>>
    /\ returned' = next_step_returns
    /\ IF next_step_returns = {}
       THEN \* return None
            UNCHANGED <<planVars, stateVars, activations, resets>>
       ELSE LET i == Min(next_step_returns) IN
            IF status[i] = "PENDING"
            THEN \* activate(step); record its index; return it
                 /\ status' = [status EXCEPT ![i] = "ACTIVE"]
                 /\ current_step_idx' = i - 1
                 /\ activations' = [activations EXCEPT ![i] = @ + 1]
                 /\ UNCHANGED <<deps, risk, failure_count, version,
                                completed_steps, failed_steps,
                                consecutive_failures, revision_count, halted,
                                halt_reason, resets>>
            ELSE \* already ACTIVE: return it
                 UNCHANGED <<planVars, stateVars, activations, resets>>

\* ---------------------------------------------------------- update_state
\* planner.py:466  the halt rule applied after a failure
\* (faulty variants: one of the two halt conditions left out)
ShouldHaltConsecutiveOnly(can_retry, cf) == cf >= CONSECUTIVE_FAILURE_LIMIT
ShouldHaltRetryOnly(can_retry, cf) == ~can_retry
ShouldHalt(can_retry, cf) == ~can_retry \/ cf >= CONSECUTIVE_FAILURE_LIMIT

\* Whether update_state(sid, ok) raises: the lifecycle transition it needs
\* is refused (the step is not ACTIVE). An unknown step id never raises.
update_state_raises(sid, ok) ==
    /\ sid \in Steps
    /\ IF ok THEN ~complete_ok(sid) ELSE ~fail_ok(sid)

\* planner.py:456-459  the success branch
\* (faulty variant: DONE written without complete's ACTIVE precondition)
UpdateSuccessUnchecked(sid) ==
    /\ status' = [status EXCEPT ![sid] = "DONE"]
    /\ completed_steps' = Append(completed_steps, sid)
    /\ consecutive_failures' = 0
    /\ UNCHANGED <<deps, risk, failure_count, version, current_step_idx,
                   failed_steps, revision_count, halted, halt_reason,
                   activations, resets>>

\* planner.py:456-459  the success branch
\* (faulty variant: consecutive_failures not reset)
UpdateSuccessKeepingFailures(sid) ==
    IF complete_ok(sid)
    THEN /\ status' = [status EXCEPT ![sid] = "DONE"]
         /\ completed_steps' = Append(completed_steps, sid)
         /\ UNCHANGED <<deps, risk, failure_count, version, current_step_idx,
                        failed_steps, consecutive_failures, revision_count,
                        halted, halt_reason, activations, resets>>
    ELSE UNCHANGED <<planVars, stateVars, activations, resets>>

\* planner.py:456-459  the success branch
UpdateSuccess(sid) ==
    IF complete_ok(sid)
    THEN /\ status' = [status EXCEPT ![sid] = "DONE"]
         /\ completed_steps' = Append(completed_steps, sid)
         /\ consecutive_failures' = 0
         /\ UNCHANGED <<deps, risk, failure_count, version, current_step_idx,
                        failed_steps, revision_count, halted, halt_reason,
                        activations, resets>>
    ELSE \* complete raises before anything is written
         UNCHANGED <<planVars, stateVars, activations, resets>>

\* planner.py:460-470  the failure branch
\* (faulty variant: the failure is booked before fail is called)
UpdateFailureBookingFirst(sid) ==
    IF fail_ok(sid)
    THEN LET can_retry == fail_can_retry(sid)
             cf == consecutive_failures + 1
         IN  /\ status' = [status EXCEPT ![sid] = "FAILED"]
             /\ failure_count' = [failure_count EXCEPT ![sid] = @ + 1]
             /\ failed_steps' = Append(failed_steps, sid)
             /\ consecutive_failures' = cf
             /\ IF ShouldHalt(can_retry, cf)
                THEN /\ halted' = TRUE
                     /\ halt_reason' = <<sid, failure_count[sid] + 1>>
                ELSE UNCHANGED <<halted, halt_reason>>
             /\ UNCHANGED <<deps, risk, version, current_step_idx,
                            completed_steps, revision_count,
                            activations, resets>>
    ELSE /\ failed_steps' = Append(failed_steps, sid)
         /\ consecutive_failures' = consecutive_failures + 1
         /\ UNCHANGED <<planVars, current_step_idx, completed_steps,
                        revision_count, halted, halt_reason,
                        activations, resets>>

\* planner.py:460-470  the failure branch
UpdateFailure(sid) ==
    IF fail_ok(sid)
    THEN LET can_retry == fail_can_retry(sid)
             cf == consecutive_failures + 1
         IN  /\ status' = [status EXCEPT ![sid] = "FAILED"]
             /\ failure_count' = [failure_count EXCEPT ![sid] = @ + 1]
             /\ failed_steps' = Append(failed_steps, sid)
             /\ consecutive_failures' = cf
             /\ IF ShouldHalt(can_retry, cf)
                THEN /\ halted' = TRUE
                     /\ halt_reason' = <<sid, failure_count[sid] + 1>>
                ELSE UNCHANGED <<halted, halt_reason>>
             /\ UNCHANGED <<deps, risk, version, current_step_idx,
                            completed_steps, revision_count,
                            activations, resets>>
    ELSE \* fail raises before anything is written
         UNCHANGED <<planVars, stateVars, activations, resets>>

\* planner.py:433-472  update_state
\* (faulty variant: the outcome is booked before the step is resolved)
UpdateStateBookingUnknown(sid, ok) ==
    /\ UNCHANGED <<logVars, pureVars>>
    /\ returned' = {}
    /\ IF sid \notin Steps
       THEN IF ok
            THEN /\ completed_steps' = Append(completed_steps, sid)
                 /\ consecutive_failures' = 0
                 /\ UNCHANGED <<planVars, current_step_idx, failed_steps,
                                revision_count, halted, halt_reason,
                                activations, resets>>
            ELSE /\ failed_steps' = Append(failed_steps, sid)
                 /\ consecutive_failures' = consecutive_failures + 1
                 /\ UNCHANGED <<planVars, current_step_idx, completed_steps,
                                revision_count, halted, halt_reason,
                                activations, resets>>
       ELSE IF ok THEN UpdateSuccess(sid) ELSE UpdateFailure(sid)

\* planner.py:433-472  update_state(plan, state, outcome), the outcome being
\* (step_id, success). The caller has handed over its outcome: nothing
\* returned by an earlier next_step is outstanding any more.
UpdateState(sid, ok) ==
    /\ UNCHANGED <<logVars, pureVars>>
    /\ returned' = {}
    /\ IF sid \notin Steps
       THEN \* unknown step: return state
            UNCHANGED <<planVars, stateVars, activations, resets>>
       ELSE IF ok THEN UpdateSuccess(sid) ELSE UpdateFailure(sid)

\* ----------------------------------------------------------- revise_plan
\* planner.py:500  first revision
\* (faulty variant: any failed step is taken for a first failure)
RetryableAtLeastOnce(i) == failure_count[i] >= 1

\* planner.py:500  first revision: the step failed once
Retryable(i) == failure_count[i] = 1

\* planner.py:508  second revision: failed twice and may be skipped
\* (faulty variant: can_skip not consulted)
SkippableAnyRisk(i) == failure_count[i] = 2
Skippable(i) == failure_count[i] = 2 /\ can_skip(i)

\* Whether revise_plan(sid) raises: the lifecycle transition it needs is
\* refused. An unknown step id never raises.
revise_plan_raises(sid) ==
    /\ sid \in Steps
    /\ \/ Retryable(sid) /\ ~reset_for_retry_ok(sid)
       \/ ~Retryable(sid) /\ Skippable(sid) /\ ~skip_ok(sid)

\* planner.py:500-505  reset the step for its retry
\* (faulty variant: the retry also clears failure_count)
ReviseRetryClearingCount(sid) ==
    IF reset_for_retry_ok(sid)
    THEN /\ status' = [status EXCEPT ![sid] = "PENDING"]
         /\ failure_count' = [failure_count EXCEPT ![sid] = 0]
         /\ revision_count' = revision_count + 1
         /\ consecutive_failures' = 0
         /\ version' = version + 1
         /\ resets' = [resets EXCEPT ![sid] = @ + 1]
         /\ UNCHANGED <<deps, risk, current_step_idx, completed_steps,
                        failed_steps, halted, halt_reason, returned, activations>>
    ELSE UNCHANGED plannerVars

\* planner.py:500-505  reset the step for its retry
ReviseRetry(sid) ==
    IF reset_for_retry_ok(sid)
    THEN /\ status' = [status EXCEPT ![sid] = "PENDING"]
         /\ revision_count' = revision_count + 1
         /\ consecutive_failures' = 0
         /\ version' = version + 1
         /\ resets' = [resets EXCEPT ![sid] = @ + 1]
         /\ UNCHANGED <<deps, risk, failure_count, current_step_idx,
                        completed_steps, failed_steps, halted, halt_reason,
                        returned, activations>>
    ELSE \* reset_for_retry raises before anything is written
         UNCHANGED plannerVars

\* planner.py:508-512  skip the step
\* (faulty variant: plan.version not incremented)
ReviseSkipNoVersion(sid) ==
    IF skip_ok(sid)
    THEN /\ status' = [status EXCEPT ![sid] = "SKIPPED"]
         /\ revision_count' = revision_count + 1
         /\ UNCHANGED <<deps, risk, failure_count, version, current_step_idx,
                        completed_steps, failed_steps, consecutive_failures,
                        halted, halt_reason, returned, activations, resets>>
    ELSE UNCHANGED plannerVars

\* planner.py:508-512  skip the step
\* (faulty variant: the skip also zeroes consecutive_failures, as the retry does)
ReviseSkipClearingFailures(sid) ==
    IF skip_ok(sid)
    THEN /\ status' = [status EXCEPT ![sid] = "SKIPPED"]
         /\ revision_count' = revision_count + 1
         /\ consecutive_failures' = 0
         /\ version' = version + 1
         /\ UNCHANGED <<deps, risk, failure_count, current_step_idx,
                        completed_steps, failed_steps,
                        halted, halt_reason, returned, activations, resets>>
    ELSE UNCHANGED plannerVars

\* planner.py:508-512  skip the step
ReviseSkip(sid) ==
    IF skip_ok(sid)
    THEN /\ status' = [status EXCEPT ![sid] = "SKIPPED"]
         /\ revision_count' = revision_count + 1
         /\ version' = version + 1
         /\ UNCHANGED <<deps, risk, failure_count, current_step_idx,
                        completed_steps, failed_steps, consecutive_failures,
                        halted, halt_reason, returned, activations, resets>>
    ELSE \* skip raises before anything is written
         UNCHANGED plannerVars

\* planner.py:474-515  revise_plan(plan, state, failure)
RevisePlan(sid) ==
    /\ UNCHANGED <<logVars, pureVars>>
    /\ IF sid \notin Steps
       THEN \* unknown step: return plan
            UNCHANGED plannerVars
       ELSE IF Retryable(sid) THEN ReviseRetry(sid)
       ELSE IF Skippable(sid) THEN ReviseSkip(sid)
       ELSE \* no revision possible
            UNCHANGED plannerVars

\* ------------------------------------------------------------------ Spec
DoUpdateState == \E sid \in StepIds, ok \in BOOLEAN : UpdateState(sid, ok)
DoRevisePlan == \E sid \in StepIds : RevisePlan(sid)

Next ==
    \/ NextStep
    \/ DoUpdateState
    \/ DoRevisePlan

Spec == Init /\ [][Next]_vars

TypeOK ==
    /\ status \in [Steps -> StepStatus]
    /\ failure_count \in [Steps -> Nat]
    /\ risk \in [Steps -> RiskLevel]
    /\ halted \in BOOLEAN
    /\ returned \in SUBSET Steps

\* ----------------------------------------------------------- is_complete
\* planner.py:534-538  the scan of plan.steps from list position i on:
\* False at the first step that is neither DONE nor SKIPPED.
RECURSIVE all_finished_from(_)
all_finished_from(i) ==
    IF i > NumSteps THEN TRUE
    ELSE IF status[i] \notin {"DONE", "SKIPPED"} THEN FALSE
    ELSE all_finished_from(i + 1)

\* planner.py:517-538  is_complete(plan, state)
\* (faulty variant: the halted test left out)
is_completeIgnoringHalt == all_finished_from(1)
is_complete == IF halted THEN TRUE ELSE all_finished_from(1)

\* ------------------------------------------------------- controller loop
\* The loop that drives a run (__init__.py:17-29): while the plan is not
\* complete, step = next_step; the executor reports an outcome for step;
\* update_state; on a failure, revise_plan. The position in the loop is read
\* off the state: a step in hand is ACTIVE, a failure not yet revised is a
\* FAILED step at the end of failed_steps.
LoopHasStep == ActiveSteps # {}

LoopHasFailure ==
    /\ ~LoopHasStep
    /\ failed_steps # <<>>
    /\ status[failed_steps[Len(failed_steps)]] = "FAILED"

LoopAtHead == ~LoopHasStep /\ ~LoopHasFailure

LoopDispatch == LoopAtHead /\ ~is_complete /\ NextStep

LoopOutcome ==
    /\ LoopHasStep
    /\ \E i \in returned, ok \in BOOLEAN : UpdateState(i, ok)

LoopRevise ==
    /\ LoopHasFailure
    /\ RevisePlan(failed_steps[Len(failed_steps)])

LoopNext ==
    \/ LoopDispatch
    \/ LoopOutcome
    \/ LoopRevise

SpecLoop == Init /\ [][LoopNext]_vars /\ WF_vars(LoopNext)


\* ------------------------------------------------------- PlanArtifactLog
\* The clock runs up to MaxTime ticks, and the log takes up to MaxCalls
\* calls that change it (calls that are no-ops are not counted).
MaxTime == 2
MaxCalls == 4
\* Ticks of the clock in one second: _timestamp has second resolution,
\* _now_iso a finer one.
TicksPerSecond == 2

PlanIds == {"fix", "fix_v2"}
FinalStatuses == {"success", "halted"}
\* Optional arguments: {} stands for None, {v} for the value v. A dict is
\* its set of <<key, value>> items.
\* The <<fingerprint, metadata>> pairs runs are started with.
\* A metadata value is tagged with its Python type: a str, a list or a
\* tuple, each given by its items.
MetaValue(kind, items) == [kind |-> kind, items |-> items]
StartArgs == {<<"fp_a", {}>>,
              <<"fp_b", {{<<"trigger", MetaValue("str", <<"ci">>)>>}}>>}
\* The <<spec.step_id, files_touched>> pairs steps are recorded with.
StepArgs == {<<"s1", {}>>, <<"s2", {<<"a.py">>}>>}

\* artifact_log.py:254  datetime.now().isoformat(), a non-empty string
now_iso == <<now>>
\* artifact_log.py:257-259  strftime("%Y%m%d_%H%M%S"): the clock's second
timestamp == now \div TicksPerSecond

\* artifact_log.py:132  f"{plan.plan_id}_{self._timestamp()}"
MakeArtifactId(plan_id, stamp) == <<plan_id, stamp>>
\* The ids a caller may pass to record_step, finalize and load.
ArtifactIds == {MakeArtifactId(p, s) : p \in PlanIds, s \in 0..(MaxTime \div TicksPerSecond)}

\* Plan.to_json(): the serialized plan, one per plan
PlanJson(plan_id) == <<"plan_json", plan_id>>

\* json.dumps writes a str as a string and a list or a tuple as an array;
\* json.loads reads a string as a str and an array as a list.
json_value(v) == IF v.kind = "tuple" THEN MetaValue("list", v.items) ELSE v

\* json.dumps / json.loads of the dict of a PlanArtifact: strings and lists
\* of strings and dicts are written as they are, the values under metadata
\* as json_value gives them.
json_dumps(d) ==
    <<"json", [d EXCEPT !.metadata = {<<kv[1], json_value(kv[2])>> : kv \in @}]>>
json_loads(j) == j[2]

\* artifact_log.py:169-177  the StepArtifact built by record_step
StepArtifact(step_id, files_touched) ==
    [cls |-> "StepArtifact",
     step_id |-> step_id,
     timestamp |-> now_iso,
     files_touched |-> IF files_touched = {} THEN <<>>
                       ELSE CHOOSE l \in files_touched : TRUE]

\* artifact_log.py:33-43  StepArtifact.to_dict
StepArtifact_to_dict(s) ==
    [step_id |-> s.step_id,
     timestamp |-> s.timestamp,
     files_touched |-> s.files_touched]

\* artifact_log.py:45-55  StepArtifact.from_dict
StepArtifact_from_dict(data) ==
    [cls |-> "StepArtifact",
     step_id |-> data.step_id,
     timestamp |-> data.timestamp,
     files_touched |-> IF "files_touched" \in DOMAIN data
                       THEN data.files_touched ELSE <<>>]

\* artifact_log.py:70-80  PlanArtifact.to_dict
PlanArtifact_to_dict(a) ==
    [plan_id |-> a.plan_id,
     plan_json |-> a.plan_json,
     repo_fingerprint |-> a.repo_fingerprint,
     step_artifacts |-> [k \in 1..Len(a.step_artifacts) |->
                            StepArtifact_to_dict(a.step_artifacts[k])],
     start_time |-> a.start_time,
     end_time |-> a.end_time,
     final_status |-> a.final_status,
     metadata |-> a.metadata]

\* artifact_log.py:82-83  PlanArtifact.to_json
PlanArtifact_to_json(a) == json_dumps(PlanArtifact_to_dict(a))

\* artifact_log.py:85-96  PlanArtifact.from_dict
PlanArtifact_from_dict(data) ==
    [cls |-> "PlanArtifact",
     plan_id |-> data.plan_id,
     plan_json |-> data.plan_json,
     repo_fingerprint |-> data.repo_fingerprint,
     step_artifacts |-> IF "step_artifacts" \in DOMAIN data
                        THEN [k \in 1..Len(data.step_artifacts) |->
                                 StepArtifact_from_dict(data.step_artifacts[k])]
                        ELSE <<>>,
     start_time |-> data.start_time,
     end_time |-> data.end_time,
     final_status |-> data.final_status,
     metadata |-> IF "metadata" \in DOMAIN data THEN data.metadata ELSE {}]

\* artifact_log.py:98-100  PlanArtifact.from_json
PlanArtifact_from_json(j) == PlanArtifact_from_dict(json_loads(j))

\* artifact_log.py:132  the id record_plan_start returns for the plan
record_plan_start_returns(plan_id) == MakeArtifactId(plan_id, timestamp)

\* artifact_log.py:116-145  record_plan_start(plan, fingerprint, metadata)
RecordPlanStart(plan_id, fingerprint, metadata) ==
    LET artifact_id == record_plan_start_returns(plan_id)
        record == [plan_id |-> plan_id,
                   plan_json |-> PlanJson(plan_id),
                   repo_fingerprint |-> fingerprint,
                   step_artifacts |-> <<>>,
                   start_time |-> now_iso,
                   end_time |-> <<>>,
                   final_status |-> "running",
                   metadata |-> IF metadata = {} THEN {}
                                ELSE CHOOSE d \in metadata : TRUE]
    IN  /\ calls_made < MaxCalls
        /\ calls_made' = calls_made + 1
        /\ active' = [k \in DOMAIN active \cup {artifact_id} |->
                         IF k = artifact_id THEN record ELSE active[k]]
        /\ UNCHANGED <<now, files, plannerVars, pureVars>>

\* artifact_log.py:147-181  record_step
\* (faulty variant: the membership test on the active set left out, the
\* entry is created on demand)
RecordStepUnguarded(artifact_id, step_id, files_touched) ==
    LET entry == StepArtifact_to_dict(StepArtifact(step_id, files_touched))
        fresh == [plan_id |-> artifact_id[1],
                  plan_json |-> PlanJson(artifact_id[1]),
                  repo_fingerprint |-> "",
                  step_artifacts |-> <<entry>>,
                  start_time |-> now_iso,
                  end_time |-> <<>>,
                  final_status |-> "running",
                  metadata |-> {}]
    IN  /\ calls_made < MaxCalls
        /\ calls_made' = calls_made + 1
        /\ active' = [k \in DOMAIN active \cup {artifact_id} |->
                         IF k # artifact_id THEN active[k]
                         ELSE IF k \in DOMAIN active
                              THEN [active[k] EXCEPT !.step_artifacts = Append(@, entry)]
                              ELSE fresh]
        /\ UNCHANGED <<now, files, plannerVars, pureVars>>

\* artifact_log.py:147-181  record_step
\* (faulty variant: the entry is appended to every open record)
RecordStepBroadcast(artifact_id, step_id, files_touched) ==
    IF artifact_id \notin DOMAIN active
    THEN UNCHANGED vars
    ELSE /\ calls_made < MaxCalls
         /\ calls_made' = calls_made + 1
         /\ active' = [k \in DOMAIN active |->
                          [active[k] EXCEPT !.step_artifacts =
                              Append(@, StepArtifact_to_dict(
                                            StepArtifact(step_id, files_touched)))]]
         /\ UNCHANGED <<now, files, plannerVars, pureVars>>

\* artifact_log.py:147-181  record_step(artifact_id, spec, outcome, diff,
\* elapsed_ms, files_touched)
RecordStep(artifact_id, step_id, files_touched) ==
    IF artifact_id \notin DOMAIN active
    THEN \* return
         UNCHANGED vars
    ELSE /\ calls_made < MaxCalls
         /\ calls_made' = calls_made + 1
         /\ active' = [active EXCEPT ![artifact_id].step_artifacts =
                          Append(@, StepArtifact_to_dict(
                                        StepArtifact(step_id, files_touched)))]
         /\ UNCHANGED <<now, files, plannerVars, pureVars>>

\* artifact_log.py:217  output_dir / f"{artifact_id}.json"
FilePath(artifact_id) == <<"plan_artifacts", artifact_id, ".json">>

\* artifact_log.py:193-220  what finalize returns ({} is None)
finalize_returns(artifact_id) ==
    IF artifact_id \notin DOMAIN active THEN {} ELSE {FilePath(artifact_id)}

\* artifact_log.py:196-214  the PlanArtifact finalize builds from the record
FinalArtifact(artifact_id, final_status) ==
    LET data == [active[artifact_id] EXCEPT !.end_time = now_iso,
                                            !.final_status = final_status]
    IN  [cls |-> "PlanArtifact",
         plan_id |-> data.plan_id,
         plan_json |-> data.plan_json,
         repo_fingerprint |-> data.repo_fingerprint,
         step_artifacts |-> [k \in 1..Len(data.step_artifacts) |->
                                StepArtifact_from_dict(data.step_artifacts[k])],
         start_time |-> data.start_time,
         end_time |-> data.end_time,
         final_status |-> final_status,
         metadata |-> data.metadata]

\* artifact_log.py:183-220  finalize
\* (faulty variant: the record is read, not popped, from the active set)
FinalizeKeepingActive(artifact_id, final_status) ==
    IF artifact_id \notin DOMAIN active
    THEN UNCHANGED vars
    ELSE /\ files' = [k \in DOMAIN files \cup {artifact_id} |->
                         IF k = artifact_id
                         THEN PlanArtifact_to_json(FinalArtifact(artifact_id, final_status))
                         ELSE files[k]]
         /\ calls_made < MaxCalls
         /\ calls_made' = calls_made + 1
         /\ UNCHANGED <<now, active, plannerVars, pureVars>>

\* artifact_log.py:183-220  finalize(artifact_id, status)
Finalize(artifact_id, final_status) ==
    IF artifact_id \notin DOMAIN active
    THEN \* return None
         UNCHANGED vars
    ELSE /\ calls_made < MaxCalls
         /\ calls_made' = calls_made + 1
         /\ active' = [k \in DOMAIN active \ {artifact_id} |-> active[k]]
         /\ files' = [k \in DOMAIN files \cup {artifact_id} |->
                         IF k = artifact_id
                         THEN PlanArtifact_to_json(FinalArtifact(artifact_id, final_status))
                         ELSE files[k]]
         /\ UNCHANGED <<now, plannerVars, pureVars>>

\* artifact_log.py:222-235  load(artifact_id) ({} is None)
load(artifact_id) ==
    IF artifact_id \notin DOMAIN files THEN {}
    ELSE {PlanArtifact_from_json(files[artifact_id])}

\* The clock advances between calls.
Tick ==
    /\ now < MaxTime
    /\ now' = now + 1
    /\ UNCHANGED <<active, files, calls_made, plannerVars, pureVars>>

DoRecordPlanStart ==
    \E p \in PlanIds, a \in StartArgs : RecordPlanStart(p, a[1], a[2])
DoRecordStep ==
    \E id \in ArtifactIds, a \in StepArgs : RecordStep(id, a[1], a[2])
DoFinalize ==
    \E id \in ArtifactIds, st \in FinalStatuses : Finalize(id, st)

\* A log freshly constructed (artifact_log.py:106-114), used for the runs
\* of plans whose steps are all MED risk and independent.
InitLog ==
    /\ Init
    /\ \A s \in Steps : deps[s] = {} /\ risk[s] = "MED"

NextLog ==
    \/ Tick
    \/ DoRecordPlanStart
    \/ DoRecordStep
    \/ DoFinalize

SpecLog == InitLog /\ [][NextLog]_vars


\* ------------------------------------------- the artifact conversions
\* The longest step list of a PlanArtifact that is converted.
MaxArtifactSteps == 2

\* The StepArtifact values converted (artifact_log.py:21-31).
StepArtifactInputs ==
    {[cls |-> "StepArtifact", step_id |-> sid, timestamp |-> <<0>>,
      files_touched |-> ft] :
        sid \in {"s1", "s2"}, ft \in {<<>>, <<"a.py">>, <<"a.py", "b.py">>}}

\* The metadata dicts converted: empty, and one entry holding a str, a
\* list or a tuple.
MetadataInputs ==
    {{}} \cup {{<<"shape", MetaValue(k, <<"1", "2">>)>>} : k \in {"str", "list", "tuple"}}

StepListsUpTo(n) ==
    UNION {[1..k -> StepArtifactInputs] : k \in 0..n}

\* The PlanArtifact values converted (artifact_log.py:57-68).
PlanArtifactInputs ==
    {[cls |-> "PlanArtifact",
      plan_id |-> p,
      plan_json |-> PlanJson(p),
      repo_fingerprint |-> "fp_a",
      step_artifacts |-> steps,
      start_time |-> <<0>>,
      end_time |-> <<1>>,
      final_status |-> st,
      metadata |-> md] :
        p \in PlanIds, steps \in StepListsUpTo(MaxArtifactSteps),
        st \in FinalStatuses, md \in MetadataInputs}

\* PlanArtifact.from_dict(p.to_dict())
RoundTripDict ==
    /\ result = {}
    /\ result' = {[op |-> "dict", k |-> 0,
                   value |-> PlanArtifact_from_dict(PlanArtifact_to_dict(arg))]}
    /\ UNCHANGED <<arg, plannerVars, logVars>>

\* PlanArtifact.from_json(p.to_json())
RoundTripJson ==
    /\ result = {}
    /\ result' = {[op |-> "json", k |-> 0,
                   value |-> PlanArtifact_from_json(PlanArtifact_to_json(arg))]}
    /\ UNCHANGED <<arg, plannerVars, logVars>>

\* StepArtifact.from_dict(s.to_dict()) for the k-th step artifact s of p
RoundTripStep ==
    /\ result = {}
    /\ \E k \in 1..Len(arg.step_artifacts) :
          result' = {[op |-> "step", k |-> k,
                      value |-> StepArtifact_from_dict(
                                    StepArtifact_to_dict(arg.step_artifacts[k]))]}
    /\ UNCHANGED <<arg, plannerVars, logVars>>

\* Any PlanArtifact of the inputs, not yet converted.
InitRoundTrip ==
    /\ InitBase
    /\ \A s \in Steps : deps[s] = {} /\ risk[s] = "MED"
    /\ arg \in PlanArtifactInputs
    /\ result = {}

NextRoundTrip ==
    \/ RoundTripDict
    \/ RoundTripJson
    \/ RoundTripStep

SpecRoundTrip == InitRoundTrip /\ [][NextRoundTrip]_vars


\* ------------------------------------------------------- list_artifacts
\* The characters of a plan id, of a timestamp (fixed width: one digit per
\* second of the clock here) and of an artifact id (artifact_log.py:132).
PlanIdChars(p) ==
    CASE p = "fix" -> <<"f", "i", "x">>
      [] p = "fix_v2" -> <<"f", "i", "x", "_", "v", "2">>
StampChars(s) == <<(<<"0", "1", "2", "3", "4", "5", "6", "7", "8", "9">>)[s + 1]>>
IdChars(id) == PlanIdChars(id[1]) \o <<"_">> \o StampChars(id[2])

\* The code point of a character (Python compares strings by code point).
CharCode(c) ==
    CASE c \in {"0", "1", "2", "3", "4", "5", "6", "7", "8", "9"} ->
             CHOOSE n \in 48..57 :
                 (<<"0", "1", "2", "3", "4", "5", "6", "7", "8", "9">>)[n - 47] = c
      [] c = "_" -> 95
      [] c = "f" -> 102
      [] c = "i" -> 105
      [] c = "v" -> 118
      [] c = "x" -> 120

\* str.startswith
startswith(s, prefix) ==
    Len(prefix) <= Len(s) /\ SubSeq(s, 1, Len(prefix)) = prefix

\* a < b for two strings
StrLess(a, b) ==
    \E i \in 1..(Len(a) + 1) :
        /\ i <= Len(b)
        /\ \A j \in 1..(i - 1) : a[j] = b[j]
        /\ i = Len(a) + 1 \/ CharCode(a[i]) < CharCode(b[i])

\* sorted(ids, reverse=True)
SortedReverse(ids) ==
    [k \in 1..Cardinality(ids) |->
        CHOOSE id \in ids :
            Cardinality({o \in ids : StrLess(IdChars(id), IdChars(o))}) = k - 1]

\* artifact_log.py:249  the filter on the file stems
\* (the filter plan_id is {} for None, else {plan_id})
MatchesFilter(id, plan_id) ==
    plan_id = {} \/ \E p \in plan_id : startswith(IdChars(id), PlanIdChars(p))

\* artifact_log.py:237-251  list_artifacts(plan_id)
list_artifacts(plan_id) ==
    SortedReverse({id \in DOMAIN files : MatchesFilter(id, plan_id)})


\* -------------------------------------- LLMDecomposer: the validation
\* llm_decomposer.py:25-26  DecompositionConfig.min_steps, max_steps
MIN_STEPS == 2
MAX_STEPS == 10
\* The longest step list the LLM's response is taken to hold.
MaxDecompositionSteps == 2

\* llm_decomposer.py:225
RequiredFields == {"step_id", "title", "intent", "allowed_files", "success_criteria"}

\* File paths, each the sequence of its parts.
FilePaths ==
    {<<"src/", "module.py">>,
     <<"src/", "controller.py">>,
     <<"safety.py">>,
     <<"rules.py">>,
     <<"config/", "prod", ".env">>,
     <<"secrets/", "key.pem">>,
     <<"credentials/", "aws.json">>,
     <<"node_modules/", "lib.js">>,
     <<"__pycache__/", "m.pyc">>}

\* The step dicts of a parsed response: the keys present, and the value
\* under allowed_files.
StepDicts ==
    {[keys |-> ks, allowed_files |-> fs] :
        ks \in {RequiredFields, RequiredFields \ {"title"}},
        fs \in {<<>>} \cup {<<f>> : f \in FilePaths}}

\* The parsed responses (llm_decomposer.py:129, _parse_llm_response).
Decompositions ==
    UNION {[1..n -> StepDicts] : n \in 1..MaxDecompositionSteps}

\* llm_decomposer.py:234  `forbidden in f` for strings: f holds the parts
\* of forbidden in a row
Contains(f, forbidden) ==
    \E i \in 1..(Len(f) - Len(forbidden) + 1) :
        SubSeq(f, i, i + Len(forbidden) - 1) = forbidden

\* llm_decomposer.py:234  the substrings the validation looks for
ForbiddenSubstrings ==
    {<<"controller.py">>, <<"safety.py">>, <<".env">>, <<"secrets/">>}

\* llm_decomposer.py:233  step.get("allowed_files", [])
AllowedFilesOf(step) ==
    IF "allowed_files" \in step.keys THEN step.allowed_files ELSE <<>>

\* llm_decomposer.py:211-238  _validate_decomposition(steps)
validate_decomposition(steps) ==
    IF Len(steps) < MIN_STEPS THEN FALSE
    ELSE IF Len(steps) > MAX_STEPS THEN FALSE
    ELSE \A k \in 1..Len(steps) :
            /\ RequiredFields \subseteq steps[k].keys
            /\ \A j \in 1..Len(AllowedFilesOf(steps[k])) :
                   ~ \E forbidden \in ForbiddenSubstrings :
                         Contains(AllowedFilesOf(steps[k])[j], forbidden)

\* llm_decomposer.py:211-238  one call of _validate_decomposition
ValidateDecomposition ==
    /\ result = {}
    /\ result' = {[op |-> "validate",
                   accepted |-> validate_decomposition(arg),
                   plan_files |-> <<>>]}
    /\ UNCHANGED <<arg, plannerVars, logVars>>

\* llm_decomposer.py:123-140, 240-287  decompose, for an LLM answering with
\* the response: the Plan (here the allowed_files of its steps) when the
\* response is non-empty and valid, else None.
Decompose ==
    /\ result = {}
    /\ LET ok == Len(arg) > 0 /\ validate_decomposition(arg)
       IN  result' = {[op |-> "decompose",
                       accepted |-> ok,
                       plan_files |-> IF ok
                                      THEN [k \in 1..Len(arg) |-> AllowedFilesOf(arg[k])]
                                      ELSE <<>>]}
    /\ UNCHANGED <<arg, plannerVars, logVars>>

\* Any parsed response, not yet validated.
InitDecompose ==
    /\ InitBase
    /\ \A s \in Steps : deps[s] = {} /\ risk[s] = "MED"
    /\ arg \in Decompositions
    /\ result = {}

NextDecompose ==
    \/ ValidateDecomposition
    \/ Decompose

SpecDecompose == InitDecompose /\ [][NextDecompose]_vars


\* ================================================================ claims
\* C1: single in-flight. In every state reachable by next_step, update_state
\* and revise_plan calls at most one step of the plan is ACTIVE.
C1_SingleInFlight == Cardinality(ActiveSteps) <= 1

\* C2: idempotent re-dispatch. While a step returned by next_step is
\* outstanding (no update_state call since), another next_step call returns
\* that same step and activates nothing.
C2_IdempotentRedispatch ==
    [][(returned # {} /\ NextStep) => (returned' = returned /\ status' = status)]_vars

\* C3: dependency gating. Every step that is ACTIVE, DONE or FAILED (every
\* step that was ever activated) has all its dependencies DONE.
C3_DependencyGating ==
    \A s \in Steps :
        status[s] \in {"ACTIVE", "DONE", "FAILED"}
            => \A d \in deps[s] : status[d] = "DONE"

\* C3 witness: next_step has just activated a step that has dependencies,
\* while a step depending on it stays PENDING.
C3_Witness ==
    \E s, t \in Steps :
        /\ deps[s] # {} /\ status[s] = "ACTIVE" /\ returned = {s}
        /\ s \in deps[t] /\ status[t] = "PENDING"

\* C4: a step becomes DONE only by update_state applying a success outcome
\* to it while it is ACTIVE, and a DONE step never changes status again.
C4_DoneOnlyFromActive ==
    [][\A s \in Steps :
          /\ status[s] = "DONE" => status'[s] = "DONE"
          /\ (status[s] # "DONE" /\ status'[s] = "DONE")
                => (status[s] = "ACTIVE" /\ UpdateState(s, TRUE))]_vars

\* C4 witness: a step is DONE (after a retry) and a later call has been made.
C4_Witness ==
    \E s \in Steps :
        status[s] = "DONE" /\ failure_count[s] = 1 /\ returned # {}

\* C5: retry ceiling. failure_count never exceeds 2, a step is reset for
\* retry at most once and activated at most twice, and a step that failed
\* twice is neither PENDING nor ACTIVE.
C5_RetryCeiling ==
    \A s \in Steps :
        /\ failure_count[s] <= 2
        /\ resets[s] <= 1
        /\ activations[s] <= 2
        /\ failure_count[s] >= 2 => status[s] \notin {"PENDING", "ACTIVE"}

\* C5 witness: a step was retried once and failed its second attempt.
C5_Witness ==
    \E s \in Steps :
        failure_count[s] = 2 /\ resets[s] = 1 /\ activations[s] = 2

\* C6: skip safety. No HIGH-risk step is ever SKIPPED.
C6_SkipSafety ==
    \A s \in Steps : risk[s] = "HIGH" => status[s] # "SKIPPED"

\* C6 witness: a HIGH-risk step has failed twice (revise_plan reaches its
\* skip test for it) and stays FAILED.
C6_Witness ==
    \E s \in Steps :
        risk[s] = "HIGH" /\ failure_count[s] = 2 /\ status[s] = "FAILED"

\* C7: halt monotonicity. Once halted, no call clears halted, next_step
\* returns none, and no step goes from PENDING to ACTIVE.
C7_HaltMonotonic ==
    /\ [](halted => next_step_returns = {})
    /\ [][halted =>
             /\ halted'
             /\ \A s \in Steps : ~(status[s] = "PENDING" /\ status'[s] = "ACTIVE")]_vars

\* C7 witness: the run is halted while a PENDING step has all its
\* dependencies DONE (a step next_step would otherwise activate).
C7_Witness ==
    /\ halted
    /\ \E s \in Steps : can_activate(s)
    /\ ActiveSteps = {}
    /\ returned = {}

\* Scenario A: the linear plan a -> b -> c (each step depends on the one
\* before it), a succeeded, b failed twice.
LinearPlan == \A s \in Steps : deps[s] = (IF s = 1 THEN {} ELSE {s - 1})

ScenarioA(r) ==
    /\ LinearPlan
    /\ risk[2] = r
    /\ completed_steps = <<1>>
    /\ failed_steps = <<2, 2>>

\* C8 as stated: in scenario A with b of MED risk, after both failures were
\* revised, a is DONE, b is SKIPPED and the next next_step activates c
\* (c is what next_step returns).
C8_ScenarioASkipActivatesC ==
    (ScenarioA("MED") /\ revision_count = 2) =>
        /\ status[1] = "DONE"
        /\ status[2] = "SKIPPED"
        /\ next_step_returns = {3}

\* C8 amended: in scenario A with b of MED risk, after both failures were
\* revised, a is DONE, b is SKIPPED, the run is halted, c is still PENDING
\* and was never activated, and next_step returns none.
C8_ScenarioASkipHalts ==
    (ScenarioA("MED") /\ revision_count = 2) =>
        /\ status[1] = "DONE"
        /\ status[2] = "SKIPPED"
        /\ halted
        /\ status[3] = "PENDING"
        /\ activations[3] = 0
        /\ next_step_returns = {}

\* C8 witness: scenario A ran to its end: b was dispatched twice, failed
\* twice and was skipped by the second revision.
C8_Witness ==
    /\ ScenarioA("MED")
    /\ revision_count = 2
    /\ status[2] = "SKIPPED"
    /\ activations[2] = 2

\* C9: in scenario A with b of HIGH risk, a is DONE, the run is halted, b
\* stays FAILED and c was never activated.
C9_ScenarioAHalt ==
    ScenarioA("HIGH") =>
        /\ status[1] = "DONE"
        /\ halted
        /\ status[2] = "FAILED"
        /\ status[3] = "PENDING"
        /\ activations[3] = 0

\* C9 witness: scenario A ran to its end with b of HIGH risk, the first
\* failure having been revised (b was reset and dispatched again).
C9_Witness ==
    /\ ScenarioA("HIGH")
    /\ revision_count = 1
    /\ activations[2] = 2

\* C10: halt rule. A failure outcome applied to an ACTIVE step leaves halted
\* true exactly when it was already true, or the step has now failed at
\* least twice, or consecutive_failures is now at least 2; and in every
\* state consecutive_failures >= 2 implies halted.
C10_HaltRule ==
    /\ [](consecutive_failures >= 2 => halted)
    /\ [][\A s \in Steps :
             (status[s] = "ACTIVE" /\ UpdateState(s, FALSE)) =>
                 (halted' <=> (halted \/ failure_count'[s] >= 2
                                      \/ consecutive_failures' >= 2))]_vars

\* C10 witness: two failures in a row on two different steps, each failing
\* for the first time, halted the run.
C10_Witness ==
    /\ halted
    /\ consecutive_failures = 2
    /\ Len(failed_steps) = 2
    /\ failed_steps[1] # failed_steps[2]
    /\ \A s \in Steps : failure_count[s] <= 1

\* Number of dispatches (PENDING -> ACTIVE transitions) of the run so far.
RECURSIVE dispatches_upto(_)
dispatches_upto(i) == IF i = 0 THEN 0 ELSE activations[i] + dispatches_upto(i - 1)

\* What the claims call a complete run: halted, or every step DONE or SKIPPED.
RunComplete == halted \/ \A s \in Steps : status[s] \in {"DONE", "SKIPPED"}

\* C11: termination. Driven by the controller loop, with outcomes chosen
\* freely, a run eventually is complete; it makes at most 2 * N dispatches;
\* and at the head of the loop next_step returns none only when the run is
\* complete.
C11_Termination ==
    /\ <>RunComplete
    /\ [](dispatches_upto(NumSteps) <= 2 * NumSteps)
    /\ [](LoopAtHead /\ next_step_returns = {} => RunComplete)

\* C11 witness: a run completed with every step DONE or SKIPPED and not
\* halted, one step having been retried.
C11_Witness ==
    /\ is_complete
    /\ ~halted
    /\ \E s \in Steps : failure_count[s] = 1 /\ activations[s] = 2

\* C12: update_state with an outcome whose step id names no step of the
\* plan changes no field of the plan or of the state, whatever the outcome.
C12_UnknownStepNoOp ==
    [][\A ok \in BOOLEAN :
          UpdateState(UnknownId, ok) => UNCHANGED <<planVars, stateVars>>]_vars

\* C12 witness: the first dispatched step is still ACTIVE and nothing was
\* booked, after an update_state call that changed nothing.
C12_Witness ==
    /\ ActiveSteps # {}
    /\ returned = {}
    /\ ~halted
    /\ completed_steps = <<>>
    /\ failed_steps = <<>>

\* C13: revise_plan changes nothing when the step id is unknown, when the
\* step's failure_count is 0 or at least 3, or when it is 2 and the step is
\* of HIGH risk: a step that changes a Plan or PlanState field is no such
\* call.
C13_RevisePlanNoOp ==
    [][\/ UNCHANGED <<planVars, stateVars>>
       \/ \A sid \in StepIds :
            ~(/\ \/ sid \notin Steps
                 \/ failure_count[sid] = 0
                 \/ failure_count[sid] >= 3
                 \/ failure_count[sid] = 2 /\ risk[sid] = "HIGH"
              /\ RevisePlan(sid))]_vars

\* C13 witness: a HIGH-risk step failed its retry (one revision was made,
\* for its first failure) and is left FAILED.
C13_Witness ==
    \E s \in Steps :
        /\ risk[s] = "HIGH" /\ failure_count[s] = 2 /\ status[s] = "FAILED"
        /\ revision_count = 1
        /\ version = INITIAL_VERSION + 1

\* C14: is_complete is true exactly when the state is halted or every step
\* is DONE or SKIPPED.
C14_IsComplete ==
    is_complete <=> (halted \/ \A s \in Steps : status[s] \in {"DONE", "SKIPPED"})

\* C14 witness: two cases side by side are reachable; this one is a halted
\* run with a step still PENDING, which is_complete reports complete.
C14_Witness ==
    /\ halted
    /\ is_complete
    /\ \E s \in Steps : status[s] = "PENDING"

\* C15: success accounting. A success outcome applied to an ACTIVE step sets
\* it DONE, appends its id to completed_steps and zeroes
\* consecutive_failures; completed_steps only ever grows at its end, and it
\* lists exactly the DONE steps, each once.
DoneSteps == {s \in Steps : status[s] = "DONE"}

C15_SuccessAccounting ==
    /\ []({completed_steps[k] : k \in 1..Len(completed_steps)} = DoneSteps)
    /\ [](Len(completed_steps) = Cardinality(DoneSteps))
    /\ [][\A s \in Steps :
             (status[s] = "ACTIVE" /\ UpdateState(s, TRUE)) =>
                 /\ status'[s] = "DONE"
                 /\ completed_steps' = Append(completed_steps, s)
                 /\ consecutive_failures' = 0]_vars
    /\ [][\/ completed_steps' = completed_steps
          \/ \E s \in Steps : completed_steps' = Append(completed_steps, s)]_vars

\* C15 witness: two steps completed, the second right after a failure of
\* another step that is still FAILED.
C15_Witness ==
    /\ Len(completed_steps) = 2
    /\ consecutive_failures = 0
    /\ revision_count = 0
    /\ \E s \in Steps : status[s] = "FAILED"

\* C16: plan.version minus its starting value equals revision_count; the
\* two change only together, by one, in a revise_plan call that reset a
\* FAILED step for retry or skipped it.
C16_VersionTracksRevisions ==
    /\ [](version - INITIAL_VERSION = revision_count)
    /\ [][(version' # version \/ revision_count' # revision_count) =>
             /\ version' = version + 1
             /\ revision_count' = revision_count + 1
             /\ \E s \in Steps :
                    /\ RevisePlan(s)
                    /\ status[s] = "FAILED"
                    /\ status'[s] \in {"PENDING", "SKIPPED"}]_vars

\* C16 witness: two revisions were made, the later one a reset whose step
\* is still PENDING.
C16_Witness ==
    /\ revision_count = 2
    /\ version = INITIAL_VERSION + 2
    /\ \E s \in Steps : status[s] = "PENDING" /\ resets[s] = 1

\* C17 as stated: in no reachable state does update_state raise for a
\* failure outcome or for an unknown step id, or revise_plan raise.
C17_NeverRaises ==
    \A sid \in StepIds :
        /\ ~update_state_raises(sid, FALSE)
        /\ sid \notin Steps => ~update_state_raises(sid, TRUE)
        /\ ~revise_plan_raises(sid)

\* C17 amended: neither call raises for an unknown step id; update_state
\* does not raise for a failure outcome of a step that is ACTIVE, and
\* revise_plan does not raise for a step that is FAILED.
C17_NoRaiseInProtocol ==
    \A sid \in StepIds :
        /\ sid \notin Steps =>
              /\ ~update_state_raises(sid, FALSE)
              /\ ~update_state_raises(sid, TRUE)
              /\ ~revise_plan_raises(sid)
        /\ (sid \in Steps /\ status[sid] = "ACTIVE") => ~update_state_raises(sid, FALSE)
        /\ (sid \in Steps /\ status[sid] = "FAILED") => ~revise_plan_raises(sid)

\* C17 witness: a skippable step has failed twice and is FAILED (revise_plan
\* takes its skip branch) while another step is ACTIVE.
C17_Witness ==
    \E s, t \in Steps :
        /\ status[s] = "FAILED" /\ failure_count[s] = 2 /\ risk[s] = "MED"
        /\ status[t] = "ACTIVE"


\* C18: record_step on an artifact id that is not in the active set (never
\* started, or already finalized) is a silent no-op: no open record gains a
\* step, the id is not re-opened, and no persisted document changes.
C18_RecordStepUnknownNoOp ==
    [][\A id \in ArtifactIds, a \in StepArgs :
          (id \notin DOMAIN active /\ RecordStep(id, a[1], a[2]))
          => UNCHANGED <<active, files>>]_vars

\* C18 witness: a run was finalized with a recorded step, its id is no
\* longer active, and nothing has been added since.
C18_Witness ==
    \E id \in DOMAIN files :
        /\ id \notin DOMAIN active
        /\ \E r \in load(id) : Len(r.step_artifacts) = 1
        /\ calls_made = 3

\* C19: finalize on an active id removes it from the active set, writes one
\* document (the one under that id, with the status passed) and returns its
\* location; on any other id it returns none and writes nothing, so a
\* second finalize of an id leaves the first document as written.
C19_FinalizeOnce ==
    /\ [][\A id \in ArtifactIds, st \in FinalStatuses :
             Finalize(id, st) =>
                 IF id \in DOMAIN active
                 THEN /\ finalize_returns(id) = {FilePath(id)}
                      /\ id \notin DOMAIN active'
                      /\ DOMAIN files' = DOMAIN files \cup {id}
                      /\ \A k \in DOMAIN files \ {id} : files'[k] = files[k]
                      /\ \A r \in load(id)' :
                            r.final_status = st /\ r.end_time = now_iso
                 ELSE /\ finalize_returns(id) = {}
                      /\ UNCHANGED <<active, files>>]_vars
    /\ [](\A id \in ArtifactIds :
             id \notin DOMAIN active => finalize_returns(id) = {})

\* C19 witness: a run was started and finalized as halted; its id is not
\* active, so a second finalize finds nothing to close.
C19_Witness ==
    \E id \in DOMAIN files :
        /\ id \notin DOMAIN active
        /\ \E r \in load(id) : r.final_status = "halted" /\ r.step_artifacts = <<>>
        /\ calls_made = 2

\* The entry a record_step call is expected to leave in the open record.
ExpectedEntry(a) ==
    [step_id |-> a[1],
     timestamp |-> now_iso,
     files_touched |-> IF a[2] = {} THEN <<>> ELSE CHOOSE l \in a[2] : TRUE]

\* C20: append-only record. load returns none for an id that is open or
\* unknown; an open record keeps its plan_id and fingerprint and only grows,
\* by one entry per record_step call, and after finalize load returns those
\* entries in order with the plan_id and fingerprint given at start and the
\* status passed to finalize.
C20_AppendOnlyRecord ==
    /\ [](\A id \in ArtifactIds : id \in DOMAIN active => load(id) = {})
    /\ [](\A id \in ArtifactIds :
             (id \notin DOMAIN active /\ id \notin DOMAIN files) => load(id) = {})
    /\ [][\A id \in DOMAIN active :
             id \in DOMAIN active' =>
                 /\ active'[id].plan_id = active[id].plan_id
                 /\ active'[id].repo_fingerprint = active[id].repo_fingerprint
                 /\ Len(active'[id].step_artifacts) >= Len(active[id].step_artifacts)
                 /\ \A k \in 1..Len(active[id].step_artifacts) :
                        active'[id].step_artifacts[k] = active[id].step_artifacts[k]]_vars
    /\ [][\A id \in ArtifactIds, a \in StepArgs :
             (id \in DOMAIN active /\ RecordStep(id, a[1], a[2])) =>
                 active'[id].step_artifacts =
                     Append(active[id].step_artifacts, ExpectedEntry(a))]_vars
    /\ [][\A id \in ArtifactIds, st \in FinalStatuses :
             (id \in DOMAIN active /\ Finalize(id, st)) =>
                 /\ load(id)' # {}
                 /\ \A r \in load(id)' :
                        /\ r.plan_id = active[id].plan_id
                        /\ r.repo_fingerprint = active[id].repo_fingerprint
                        /\ r.final_status = st
                        /\ Len(r.step_artifacts) = Len(active[id].step_artifacts)
                        /\ \A k \in 1..Len(r.step_artifacts) :
                               /\ r.step_artifacts[k].step_id =
                                      active[id].step_artifacts[k].step_id
                               /\ r.step_artifacts[k].timestamp =
                                      active[id].step_artifacts[k].timestamp
                               /\ r.step_artifacts[k].files_touched =
                                      active[id].step_artifacts[k].files_touched]_vars


\* The PENDING steps whose dependencies are all DONE, and the one of them
\* that comes first in the plan's list.
Candidates ==
    {s \in Steps : status[s] = "PENDING" /\ \A d \in deps[s] : status[d] = "DONE"}
FirstCandidate == CHOOSE i \in Candidates : \A j \in Candidates : i <= j

\* C25: scheduling order. With the state not halted and no step ACTIVE,
\* next_step returns and activates the lowest-index PENDING step whose
\* dependencies are all DONE, records its index in current_step_idx and
\* changes nothing else; with no such step it returns none and changes
\* neither plan nor state.
C25_SchedulingOrder ==
    /\ []((~halted /\ ActiveSteps = {}) =>
            next_step_returns = IF Candidates = {} THEN {} ELSE {FirstCandidate})
    /\ [][(~halted /\ ActiveSteps = {} /\ NextStep) =>
             IF Candidates = {}
             THEN UNCHANGED <<planVars, stateVars>>
             ELSE /\ status' = [status EXCEPT ![FirstCandidate] = "ACTIVE"]
                  /\ current_step_idx' = FirstCandidate - 1
                  /\ returned' = {FirstCandidate}
                  /\ UNCHANGED <<deps, risk, failure_count, version,
                                 completed_steps, failed_steps,
                                 consecutive_failures, revision_count,
                                 halted, halt_reason>>]_vars

\* C25 witness: the third step was dispatched over a PENDING second step
\* that is blocked by its FAILED dependency.
C25_Witness ==
    /\ status[1] = "FAILED"
    /\ status[2] = "PENDING" /\ 1 \in deps[2]
    /\ status[3] = "ACTIVE"
    /\ current_step_idx = 2
    /\ returned = {3}
    /\ ~halted

\* C26: escalation steps of revise_plan. For a FAILED step that failed once
\* it sets the step PENDING, keeps failure_count, adds one to revision_count
\* and plan.version and zeroes consecutive_failures; for a FAILED step that
\* failed twice and is not HIGH risk it sets the step SKIPPED, adds one to
\* revision_count and plan.version and keeps consecutive_failures; halted,
\* halt_reason, completed_steps, failed_steps and the other steps stay.
C26_EscalationSteps ==
    [][\A s \in Steps :
          (status[s] = "FAILED" /\ RevisePlan(s)) =>
              /\ failure_count[s] = 1 =>
                    /\ status' = [status EXCEPT ![s] = "PENDING"]
                    /\ consecutive_failures' = 0
                    /\ revision_count' = revision_count + 1
                    /\ version' = version + 1
              /\ (failure_count[s] = 2 /\ risk[s] # "HIGH") =>
                    /\ status' = [status EXCEPT ![s] = "SKIPPED"]
                    /\ consecutive_failures' = consecutive_failures
                    /\ revision_count' = revision_count + 1
                    /\ version' = version + 1
              /\ UNCHANGED <<deps, risk, failure_count, halted, halt_reason,
                             completed_steps, failed_steps>>]_vars

\* C26 witness: a step was reset after its first failure and skipped after
\* its second, the skip leaving the consecutive-failure count at one.
C26_Witness ==
    \E s \in Steps :
        /\ status[s] = "SKIPPED" /\ resets[s] = 1
        /\ revision_count = 2
        /\ consecutive_failures = 1

\* C27: a skip never lets the run continue. Whenever a step is SKIPPED the
\* state is halted and next_step returns none.
C27_SkipImpliesHalted ==
    (\E s \in Steps : status[s] = "SKIPPED") =>
        (halted /\ next_step_returns = {})

\* C27 witness: a step is SKIPPED while a step without dependencies is
\* still PENDING and is not dispatched.
C27_Witness ==
    \E s, t \in Steps :
        /\ status[s] = "SKIPPED"
        /\ status[t] = "PENDING" /\ deps[t] = {}
        /\ halted

\* C29: error atomicity. An outcome for a step that is not ACTIVE makes
\* update_state raise, revise_plan raises for a step that failed once and is
\* not FAILED, and a call that raises leaves every Plan and PlanState field
\* as it was (a step that changes one of them is no such call).
C29_ErrorAtomicity ==
    /\ [](\A s \in Steps :
             /\ status[s] # "ACTIVE" =>
                   (update_state_raises(s, TRUE) /\ update_state_raises(s, FALSE))
             /\ (failure_count[s] = 1 /\ status[s] # "FAILED") =>
                   revise_plan_raises(s))
    /\ [][\/ UNCHANGED <<planVars, stateVars>>
          \/ \A s \in Steps :
                /\ \A ok \in BOOLEAN :
                      ~(status[s] # "ACTIVE" /\ UpdateState(s, ok))
                /\ ~(failure_count[s] = 1 /\ status[s] # "FAILED" /\ RevisePlan(s))]_vars

\* C29 witness: a DONE step (a duplicate outcome for it raises) next to a
\* step that failed once and was reset (revising it again raises), with no
\* outcome outstanding.
C29_Witness ==
    \E s, t \in Steps :
        /\ status[s] = "DONE"
        /\ status[t] = "PENDING" /\ failure_count[t] = 1
        /\ returned = {}
        /\ ~halted


\* C21: artifact round-trip. For every PlanArtifact p, with any step
\* artifacts, files_touched and metadata values, from_dict(p.to_dict()) and
\* from_json(p.to_json()) equal p field for field, and
\* StepArtifact.from_dict(s.to_dict()) equals s for each of its steps.
C21_RoundTrip ==
    \A r \in result :
        IF r.op = "step"
        THEN r.value = arg.step_artifacts[r.k]
        ELSE r.value = arg


\* The second at which the run persisted under an id was started.
StartedAt(id) == (CHOOSE r \in load(id) : TRUE).start_time[1]
\* Whether a list of ids runs from the most recently started run back.
MostRecentFirst(l) ==
    \A k \in 1..(Len(l) - 1) : StartedAt(l[k]) >= StartedAt(l[k + 1])

\* C22: list_artifacts(plan_id) returns exactly the ids of the finalized
\* runs of that plan, and with or without a filter the ids come most
\* recently started first.
C22_ListArtifacts ==
    /\ \A p \in PlanIds :
          {list_artifacts({p})[k] : k \in 1..Len(list_artifacts({p}))} =
              {id \in DOMAIN files : \E r \in load(id) : r.plan_id = p}
    /\ \A p \in PlanIds : MostRecentFirst(list_artifacts({p}))
    /\ MostRecentFirst(list_artifacts({}))


\* The open record and the persisted document held under an id ({} for
\* none), as a pair.
HeldUnder(id) ==
    <<IF id \in DOMAIN active THEN {active[id]} ELSE {},
      IF id \in DOMAIN files THEN {files[id]} ELSE {}>>

\* C23: run independence. A record_step or finalize call on an artifact id
\* A leaves the open record and the persisted document of every other id
\* B as they were.
C23_RunIndependence ==
    [][\A a \in ArtifactIds :
          (\/ \E x \in StepArgs : RecordStep(a, x[1], x[2])
           \/ \E st \in FinalStatuses : Finalize(a, st))
          => \A b \in ArtifactIds \ {a} : HeldUnder(b)' = HeldUnder(b)]_vars

\* C23 witness: run A was finalized with a step recorded while run B, under
\* another id, is still open with the step list it had.
C23_Witness ==
    \E a \in DOMAIN files, b \in DOMAIN active :
        /\ a # b
        /\ a \notin DOMAIN active
        /\ \E r \in load(a) : Len(r.step_artifacts) = 1
        /\ active[b].step_artifacts = <<>>
        /\ calls_made = 4

\* C24: immutability of finalized records. Once a document is persisted
\* under an artifact id, no later call changes or removes it.
C24_FinalizedImmutable ==
    [][\A id \in DOMAIN files :
          id \in DOMAIN files' /\ files'[id] = files[id]]_vars

\* C28: fresh artifact ids. The id record_plan_start returns for a plan is
\* never one that is in the active set, so starting a run replaces no open
\* record.
C28_FreshArtifactIds ==
    \A p \in PlanIds : record_plan_start_returns(p) \notin DOMAIN active


\* llm_decomposer.py:44-47  whether a path names a file of the FORBIDDEN
\* FILES list of the prompt: controller.py, safety.py, rules.py, *.env,
\* secrets/*, credentials/*, node_modules/*, __pycache__/*
PromptForbidden(f) ==
    \/ f[Len(f)] \in {"controller.py", "safety.py", "rules.py"}
    \/ f[Len(f)] = ".env"
    \/ f[1] \in {"secrets/", "credentials/", "node_modules/", "__pycache__/"}

\* C30: a decomposition that _validate_decomposition accepts, and so a Plan
\* that decompose returns, has no allowed_files entry naming a file of the
\* prompt's FORBIDDEN FILES list.
C30_NoForbiddenFiles ==
    \A r \in result :
        r.accepted =>
            /\ \A k \in 1..Len(arg) : \A j \in 1..Len(arg[k].allowed_files) :
                   ~PromptForbidden(arg[k].allowed_files[j])
            /\ \A k \in 1..Len(r.plan_files) : \A j \in 1..Len(r.plan_files[k]) :
                   ~PromptForbidden(r.plan_files[k][j])

====
